---- MODULE Spec2Model ----
(***************************************************************************)
(* Model of generate_acts.py: the batch driver (__main__), the activation  *)
(* collector get_acts with its Hook objects, and the preference scorer     *)
(* evaluate.  The program is single threaded; pc is the position of the    *)
(* one thread of control.                                                  *)
(***************************************************************************)
EXTENDS Integers, Sequences, FiniteSets, TLC

\* ---------------------------------------------------------------- bounds
\* number of transformer blocks of the loaded model, len(model.model.layers)
NumLayers == 2
\* longest --layers argument list
MaxLayersArg == 2
\* number of names given to --datasets
NumDatasets == 2
\* largest number of rows of a dataset
MaxN == 26

\* ------------------------------------------------------ program constants
\* step of range(0, len(statements), 25) and width of the slices [idx:idx+25]
ChunkSize == 25

\* --------------------------------------------------------------- inputs
\* integers that may appear in --layers: valid indices, negative indices
\* that the module list accepts, and indices out of range on both sides
LayerArgValues == (0 - (NumLayers + 1)) .. NumLayers

ArgLists == UNION {[1..n -> LayerArgValues] : n \in 1..MaxLayersArg}

DatasetSizes == 0..MaxN

\* len(s) of the strings in the statement column that the run may meet
StmtLens == {1, 2, 3}

\* the value of Hook.out before the first call, and of unset locals
None == <<>>

Range(s) == {s[i] : i \in DOMAIN s}

\* ------------------------------------------------------- dataset contents
\* load_statements: three parallel columns, one row per statement
Statement(row, slen) == [row |-> row, len |-> slen]

CorrectAnswer(row) == [kind |-> "correct", row |-> row, n |-> 1]

IncorrectAnswers(row) ==
    <<[kind |-> "incorrect", row |-> row, n |-> 1],
      [kind |-> "incorrect", row |-> row, n |-> 2]>>

\* Python slice xs[lo:lo+25] of a list of length n, as the index range
SliceEnd(lo, n) == IF lo + ChunkSize < n THEN lo + ChunkSize ELSE n

\* ------------------------------------------------------------ the driver
\* the driver without the test of line 121
ResolveLayersNoSentinel(arg) == arg

\* layers = [int(l) for l in args.layers]; if layers == [-1]: all layers
ResolveLayers(arg) ==
    IF arg = <<0 - 1>> THEN [i \in 1..NumLayers |-> i - 1] ELSE arg

\* ------------------------------------------------------- module indexing
\* model.model.layers[layer]: a module list takes -len <= i < len and counts
\* negative indices from the end; anything else raises IndexError
ValidIndex(layer) == (0 - NumLayers) <= layer /\ layer < NumLayers

ModuleOf(layer) == IF layer < 0 THEN layer + NumLayers ELSE layer

\* ------------------------------------------------------------------ Hook
\* tokenizer.encode(statement): the bos marker followed by the text
Tokenize(row) == <<[tok |-> "bos", row |-> row], [tok |-> "text", row |-> row]>>

\* what decoder block j hands to its forward hooks: (hidden states, cache);
\* the hidden states hold one vector per input position
LayerOutput(j, ids) ==
    <<[p \in 1..Len(ids) |->
          [layer |-> j, row |-> ids[Len(ids)].row, pos |-> p, dtype |-> "model"]],
      "cache">>

\* a hook that keeps the first output it saw
HookCallKeepFirst(out, module_outputs) ==
    IF out = None THEN module_outputs[1] ELSE out

\* Hook.__call__: self.out, _ = module_outputs
HookCall(out, module_outputs) == module_outputs[1]

\* hook.out[0, -1]: the vector at the last position of the only batch entry
LastToken(out) == out[Len(out)]

\* score_probs: the softmax over the vocabulary sums to one at every position,
\* so the sum over positions and vocabulary is the number of input positions
score_probs(row, answer) ==
    Len(Tokenize(row) \o <<[tok |-> "answer", row |-> answer.row]>>)

\* t.stack(act).float()
Stack(act) == [p \in 1..Len(act) |-> [act[p] EXCEPT !.dtype = "float32"]]

VARIABLES
    argLayers,   \* args.layers after int()
    ds,          \* position in args.datasets, 1-based
    N,           \* len(statements) of the dataset being processed
    layers,      \* the driver's layers list
    idx,         \* the driver's chunk start
    pc,          \* control position
    hooks,       \* get_acts: hooks[h] is the out slot of the h-th Hook
    handles,     \* get_acts: handles[h] = [layer, module] of the h-th handle
    registered,  \* Hook objects now in the forward-hook table of some block
    acts,        \* get_acts: the acts dictionary
    k,           \* get_acts: statements of the chunk processed so far
    input_ids,   \* get_acts: the encoded statement
    returned,    \* get_acts returned acts for the current chunk
    evalRes,     \* outcome of the last call of evaluate
    files,       \* files written by t.save
    err,         \* the exception that ended the run, "" if none
    chunks,      \* slices of the current dataset handed to get_acts so far
    evaluated    \* chunks <<ds, idx>> for which evaluate returned

vars == <<argLayers, ds, N, layers, idx, pc, hooks, handles, registered, acts,
          k, input_ids, returned, evalRes, files, err, chunks, evaluated>>

NoEval == [raised |-> "", labels |-> <<>>, scored |-> <<>>]

Init ==
    /\ argLayers \in ArgLists
    /\ ds = 1
    /\ N = 0
    /\ layers = <<>>
    /\ idx = 0
    /\ pc = "dataset"
    /\ hooks = <<>>
    /\ handles = <<>>
    /\ registered = {}
    /\ acts = <<>>
    /\ k = 0
    /\ input_ids = None
    /\ returned = FALSE
    /\ evalRes = NoEval
    /\ files = {}
    /\ err = ""
    /\ chunks = <<>>
    /\ evaluated = {}

\* an uncaught exception ends the process
Raise(e) == pc' = "aborted" /\ err' = e

\* the slice statements[idx:idx + 25] as a pair of row bounds [lo, hi)
ChunkLo == idx
ChunkHi == SliceEnd(idx, N)
ChunkLen == ChunkHi - ChunkLo

\* -------------------------------------------------------------- get_acts
\* the model's forward pass up to (not including) block upto: every hook in a
\* block's forward-hook table is called with the block's output
RunLayers(hs, upto, ids) ==
    [h \in DOMAIN hs |->
        IF h \in registered /\ handles[h].module < upto
        THEN HookCall(hs[h], LayerOutput(handles[h].module, ids))
        ELSE hs[h]]

\* insert(0, x) in place of append(x)
PrependRecord(act, x) == <<x>> \o act

\* acts[layer].append(x)
AppendRecord(act, x) == Append(act, x)

\* for layer, hook in zip(layers, hooks): acts[layer].append(hook.out[0, -1])
RECURSIVE ReadLoop(_, _, _, _)
ReadLoop(p, ls, hs, a) ==
    IF p > Len(ls) \/ p > Len(hs) THEN [acts |-> a, raised |-> ""]
    ELSE IF hs[p] = None THEN [acts |-> a, raised |-> "TypeError:65"]
    ELSE ReadLoop(p + 1, ls, hs,
                  [a EXCEPT ![ls[p]] = AppendRecord(a[ls[p]], LastToken(hs[p]))])

\* --------------------------------------------------------------- evaluate
\* "for i, statement in statements" unpacks each element of the list, a str:
\* a str whose length is not 2 cannot be unpacked into two names (line 88);
\* a str of length 2 binds i to its first character, and correct_answers[i]
\* then indexes a list with a str (line 89).  Only an empty list gets past
\* the loop.
evaluate(statements, correct_answers, incorrect_answers) ==
    IF Len(statements) = 0
    THEN [raised |-> "", labels |-> <<>>, scored |-> <<>>]
    ELSE IF statements[1].len # 2
         THEN [raised |-> "ValueError:88", labels |-> <<>>, scored |-> <<>>]
         ELSE [raised |-> "TypeError:89", labels |-> <<>>, scored |-> <<>>]

\* a driver that swallows the exception of evaluate and saves anyway
FilesAfterAlways(fs, res, d, a, i) ==
    fs \cup {[dataset |-> d, layer |-> l, idx |-> i] : l \in DOMAIN a}

\* lines 129-134: the save loop runs only when evaluate returned
FilesAfter(fs, res, d, a, i) ==
    IF res.raised # "" THEN fs
    ELSE fs \cup {[dataset |-> d, layer |-> l, idx |-> i] : l \in DOMAIN a}

\* ---------------------------------------------------------------- actions
\* lines 118-125
LoadDataset ==
    /\ pc = "dataset"
    /\ ds <= NumDatasets
    /\ \E n \in DatasetSizes : N' = n
    /\ layers' = ResolveLayers(argLayers)
    /\ idx' = 0
    /\ chunks' = <<>>
    /\ pc' = "chunk"
    /\ UNCHANGED <<argLayers, ds, hooks, handles, registered, acts, k,
                   input_ids, returned, evalRes, files, err, evaluated>>

\* the loop over args.datasets is exhausted
Finish ==
    /\ pc = "dataset"
    /\ ds > NumDatasets
    /\ pc' = "done"
    /\ UNCHANGED <<argLayers, ds, N, layers, idx, hooks, handles, registered,
                   acts, k, input_ids, returned, evalRes, files, err, chunks,
                   evaluated>>

\* line 127 with idx in range, line 128 up to line 52
StartChunk ==
    /\ pc = "chunk"
    /\ idx < N
    /\ chunks' = Append(chunks, <<ChunkLo, ChunkHi>>)
    /\ hooks' = <<>>
    /\ handles' = <<>>
    /\ returned' = FALSE
    /\ pc' = "register"
    /\ UNCHANGED <<argLayers, ds, N, layers, idx, registered, acts, k,
                   input_ids, evalRes, files, err, evaluated>>

\* line 127 with the range exhausted
EndDataset ==
    /\ pc = "chunk"
    /\ idx >= N
    /\ ds' = ds + 1
    /\ pc' = "dataset"
    /\ UNCHANGED <<argLayers, N, layers, idx, hooks, handles, registered, acts,
                   k, input_ids, returned, evalRes, files, err, chunks,
                   evaluated>>

\* lines 53-56, one iteration
RegisterHook ==
    /\ pc = "register"
    /\ Len(hooks) < Len(layers)
    /\ LET layer == layers[Len(hooks) + 1] IN
         IF ValidIndex(layer)
         THEN /\ hooks' = Append(hooks, None)
              /\ handles' = Append(handles,
                                   [layer |-> layer, module |-> ModuleOf(layer)])
              /\ registered' = registered \cup {Len(hooks) + 1}
              /\ UNCHANGED <<pc, err>>
         ELSE /\ Raise("IndexError:55")
              /\ UNCHANGED <<hooks, handles, registered>>
    /\ UNCHANGED <<argLayers, ds, N, layers, idx, acts, k, input_ids, returned,
                   evalRes, files, chunks, evaluated>>

\* line 59
InitActs ==
    /\ pc = "register"
    /\ Len(hooks) = Len(layers)
    /\ acts' = [l \in Range(layers) |-> <<>>]
    /\ k' = 0
    /\ pc' = "statement"
    /\ UNCHANGED <<argLayers, ds, N, layers, idx, hooks, handles, registered,
                   input_ids, returned, evalRes, files, err, chunks, evaluated>>

\* line 61
Encode ==
    /\ pc = "statement"
    /\ k < ChunkLen
    /\ \/ input_ids' = Tokenize(ChunkLo + k) /\ pc' = "forward" /\ err' = err
       \/ Raise("TokenizeError:61") /\ input_ids' = input_ids
    /\ UNCHANGED <<argLayers, ds, N, layers, idx, hooks, handles, registered,
                   acts, k, returned, evalRes, files, chunks, evaluated>>

\* line 63: the pass completes, or runs out of memory after j blocks
Forward ==
    /\ pc = "forward"
    /\ \/ hooks' = RunLayers(hooks, NumLayers, input_ids)
          /\ pc' = "read" /\ err' = err
       \/ \E j \in 0..NumLayers :
             hooks' = RunLayers(hooks, j, input_ids) /\ Raise("ForwardError:63")
    /\ UNCHANGED <<argLayers, ds, N, layers, idx, handles, registered, acts, k,
                   input_ids, returned, evalRes, files, chunks, evaluated>>

\* lines 64-65
ReadHooks ==
    /\ pc = "read"
    /\ LET r == ReadLoop(1, layers, hooks, acts) IN
         /\ acts' = r.acts
         /\ IF r.raised # ""
            THEN Raise(r.raised) /\ k' = k
            ELSE k' = k + 1 /\ pc' = "statement" /\ err' = err
    /\ UNCHANGED <<argLayers, ds, N, layers, idx, hooks, handles, registered,
                   input_ids, returned, evalRes, files, chunks, evaluated>>

\* lines 67-68; t.stack of an empty list raises
StackActs ==
    /\ pc = "statement"
    /\ k >= ChunkLen
    /\ \/ IF \E l \in DOMAIN acts : acts[l] = <<>>
          THEN Raise("RuntimeError:68") /\ acts' = acts
          ELSE /\ acts' = [l \in DOMAIN acts |-> Stack(acts[l])]
               /\ pc' = "remove" /\ err' = err
       \/ Raise("StackError:68") /\ acts' = acts
    /\ UNCHANGED <<argLayers, ds, N, layers, idx, hooks, handles, registered,
                   k, input_ids, returned, evalRes, files, chunks, evaluated>>

\* lines 71-74
RemoveHooks ==
    /\ pc = "remove"
    /\ registered' = registered \ DOMAIN handles
    /\ returned' = TRUE
    /\ pc' = "evaluate"
    /\ UNCHANGED <<argLayers, ds, N, layers, idx, hooks, handles, acts, k,
                   input_ids, evalRes, files, err, chunks, evaluated>>

\* lines 129-134
EvaluateAndSave ==
    /\ pc = "evaluate"
    /\ \E slen \in StmtLens :
         LET statements == [p \in 1..ChunkLen |-> Statement(ChunkLo + p - 1, slen)]
             correct == [p \in 1..ChunkLen |-> CorrectAnswer(ChunkLo + p - 1)]
             incorrect == [p \in 1..ChunkLen |-> IncorrectAnswers(ChunkLo + p - 1)]
             res == evaluate(statements, correct, incorrect)
         IN /\ evalRes' = res
            /\ files' = FilesAfter(files, res, ds, acts, idx)
            /\ IF res.raised # ""
               THEN Raise(res.raised) /\ UNCHANGED <<idx, evaluated>>
               ELSE /\ evaluated' = evaluated \cup {<<ds, idx>>}
                    /\ idx' = idx + ChunkSize
                    /\ pc' = "chunk" /\ err' = err
    /\ UNCHANGED <<argLayers, ds, N, layers, hooks, handles, registered, acts,
                   k, input_ids, returned, chunks>>

Next ==
    \/ LoadDataset
    \/ Finish
    \/ StartChunk
    \/ EndDataset
    \/ RegisterHook
    \/ InitActs
    \/ Encode
    \/ Forward
    \/ ReadHooks
    \/ StackActs
    \/ RemoveHooks
    \/ EvaluateAndSave

Spec == Init /\ [][Next]_vars

\* ------------------------------------------------------------ properties
HookCount == Cardinality(registered)

ProcessingStatements == pc \in {"statement", "forward", "read"}

InGetActs == pc \in {"register", "statement", "forward", "read", "remove"}

GetActsErrors == {"IndexError:55", "TokenizeError:61", "ForwardError:63",
                  "TypeError:65", "RuntimeError:68", "StackError:68"}

\* get_acts was entered for the chunk at idx
GetActsCalled == pc \in {"register", "statement", "forward", "read", "remove",
                         "evaluate", "aborted"}

\* evaluate was called for the chunk at idx and has ended
EvaluateEnded == returned /\ pc # "evaluate"

\* the driver is through with the current dataset and get_acts did not fail
DatasetEnded ==
    \/ pc = "chunk" /\ idx >= N
    \/ pc = "aborted" /\ err \notin GetActsErrors

NoDuplicates(s) == \A i, j \in DOMAIN s : s[i] = s[j] => i = j

Occurrences(s, x) == Cardinality({i \in DOMAIN s : s[i] = x})

NumChunks(n) == (n + ChunkSize - 1) \div ChunkSize

ExpectedChunks(n) ==
    [c \in 1..NumChunks(n) |->
        <<ChunkSize * (c - 1),
          IF ChunkSize * c < n THEN ChunkSize * c ELSE n>>]

Max(S) == CHOOSE x \in S : \A y \in S : y <= x

ExpectedLabel(row) ==
    score_probs(row, CorrectAnswer(row)) >
        Max({score_probs(row, a) : a \in Range(IncorrectAnswers(row))})

\* C1: while statements are processed the hooks registered on the model are
\* len(layers) many, and once get_acts is over, by return or by exception,
\* none is registered
C1_HooksBalanced ==
    /\ ProcessingStatements => HookCount = Len(layers)
    /\ ~InGetActs => HookCount = 0

\* C2: the returned mapping has the requested layers as keys and, per key,
\* one record per statement of the chunk in input order
C2_ActsShape ==
    pc = "evaluate" =>
        /\ DOMAIN acts = Range(layers)
        /\ \A l \in DOMAIN acts :
              /\ Len(acts[l]) = ChunkLen
              /\ \A p \in DOMAIN acts[l] :
                    /\ acts[l][p].row = ChunkLo + p - 1
                    /\ acts[l][p].layer = ModuleOf(l)

\* C2 amended: the same, for a layers list without repeated entries
C2_ActsShapeDistinctLayers == NoDuplicates(layers) => C2_ActsShape

C2_Witness ==
    /\ pc = "evaluate"
    /\ NoDuplicates(layers)
    /\ Len(layers) >= 2
    /\ ChunkLen >= 2

\* C3: evaluate returns one label per statement of the chunk, in order, the
\* label being whether the correct completion scores strictly above the best
\* incorrect one
C3_LabelsPerStatement ==
    EvaluateEnded =>
        /\ evalRes.raised = ""
        /\ evalRes.labels = [p \in 1..ChunkLen |-> ExpectedLabel(ChunkLo + p - 1)]

\* C4: the chunks handed out for a dataset of N rows are the ceil(N/25)
\* contiguous slices of width 25 (the last one shorter), in order
C4_AllChunks == DatasetEnded => chunks = ExpectedChunks(N)

\* C5: a dataset ends with one file per requested layer and chunk, named by
\* layer and chunk start
C5_FilesPerChunk ==
    DatasetEnded =>
        {f \in files : f.dataset = ds} =
            {[dataset |-> ds, layer |-> l, idx |-> ChunkSize * (c - 1)] :
                l \in Range(layers), c \in 1..NumChunks(N)}

\* C6: with --layers -1 the list is the full range before any hook is
\* registered, and no hook is registered under the index -1
C6_SentinelResolved ==
    (argLayers = <<0 - 1>> /\ GetActsCalled) =>
        /\ layers = [i \in 1..NumLayers |-> i - 1]
        /\ \A h \in DOMAIN handles : handles[h].layer \in 0..(NumLayers - 1)

C6_Witness ==
    /\ argLayers = <<0 - 1>>
    /\ pc = "read"
    /\ Len(handles) = NumLayers
    /\ HookCount = NumLayers

\* C7: get_acts called with an index outside [0, num_layers) fails before
\* any statement is processed and returns nothing
C7_InvalidLayerFatal ==
    (GetActsCalled /\ \E i \in DOMAIN layers : layers[i] \notin 0..(NumLayers - 1)) =>
        /\ ~returned
        /\ pc \in {"register", "aborted"}
        /\ pc = "aborted" => err = "IndexError:55"

\* C8: a file exists only for a chunk whose get_acts and evaluate both
\* completed; after an abort there is no file of the failed chunk or a later
\* one, and no chunk is handed out twice
C8_NoPartialSave ==
    /\ \A f \in files : <<f.dataset, f.idx>> \in evaluated
    /\ pc = "aborted" =>
          \A f \in files : f.dataset < ds \/ (f.dataset = ds /\ f.idx < idx)
    /\ NoDuplicates(chunks)

C8_Witness ==
    /\ pc = "aborted"
    /\ returned
    /\ err \notin GetActsErrors
    /\ Len(layers) >= 2

\* C9: what is read from a hook after the pass over statement k is that
\* pass's output of the hooked block, and so is every record in acts
C9_FreshRecords ==
    /\ pc = "read" =>
          \A h \in DOMAIN hooks :
              /\ hooks[h] # None
              /\ LastToken(hooks[h]).row = ChunkLo + k
              /\ LastToken(hooks[h]).layer = handles[h].module
    /\ (ProcessingStatements \/ pc \in {"remove", "evaluate"}) =>
          \A l \in DOMAIN acts : \A p \in DOMAIN acts[l] :
              /\ acts[l][p].row = ChunkLo + ((p - 1) \div Occurrences(layers, l))
              /\ acts[l][p].layer = ModuleOf(l)

C9_Witness ==
    /\ pc = "statement"
    /\ k >= 2
    /\ Len(layers) >= 2
    /\ \A l \in DOMAIN acts : Len(acts[l]) >= 2

\* C10: for each statement of the chunk, the incorrect completions scored
\* are that statement joined with each of its own incorrect answers
C10_OwnIncorrectAnswers ==
    EvaluateEnded =>
        \A p \in 1..ChunkLen :
            LET row == ChunkLo + p - 1 IN
            {t \in Range(evalRes.scored) :
                t.statement = row /\ t.answer.kind = "incorrect"}
              = {[statement |-> row, answer |-> a] :
                    a \in Range(IncorrectAnswers(row))}

====
